---- MODULE Spec2Model ----
(***************************************************************************)
(* jinjalint/check.py: the indentation checks of jinjalint.                *)
(*                                                                         *)
(* check_indentation(file, config) walks the parsed tree of a template and *)
(* appends an Issue for every construct whose physical indentation         *)
(* disagrees with its nesting; check_space_only_indent(file, config) scans *)
(* the physical lines for indentation that is not made of spaces.          *)
(*                                                                         *)
(* A source text is a sequence of one-character strings.  A text-run child *)
(* is the record [k |-> "str", s |-> <<chars>>]; an AST node is a record   *)
(* whose field k names its class and which carries begin and end           *)
(* locations [line, column, index].                                        *)
(*                                                                         *)
(* The traversal of check_indentation is run one call at a time: `stack`   *)
(* holds what is left to do of the calls under way, innermost first (the   *)
(* Python call stack), and each action runs the call on top up to the      *)
(* next call it makes.                                                     *)
(***************************************************************************)
EXTENDS Integers, Sequences, FiniteSets, TLC

VARIABLES
    file,      \* the File under check: [source, tree, lines]
    config,    \* [indent_size, jinja_element_names_to_not_indent]
    pc,        \* where the running check is
    stack,     \* check_indentation: the calls under way, innermost first
    idx,       \* check_space_only_indent: the loop index (1-based)
    issues,    \* the `issues` list of the running check
    err,       \* "" or the name of the exception that left the check
    log,       \* history: the calls made so far, in call order
    iters,     \* history: the iterations of every check_content loop so far
    ret        \* what the check returned to its caller

vars == <<file, config, pc, stack, idx, issues, err, log, iters, ret>>

----------------------------------------------------------------------------
(* Python's str operations, on sequences of characters.                     *)

SP == " "
NL == "\n"
TAB == "\t"

\* str.isspace() of one character
IsSpaceChar(c) == c \in {SP, NL, TAB}

\* bool(s) and s.isspace(): false on the empty string
IsSpace(s) == Len(s) > 0 /\ \A j \in 1..Len(s) : IsSpaceChar(s[j])

Spaces(n) == [j \in 1..n |-> SP]

\* s.count(c)
Count(s, c) == Len(SelectSeq(s, LAMBDA x : x = c))

\* s.replace(c, '')
Remove(s, c) == SelectSeq(s, LAMBDA x : x # c)

\* the length of the longest prefix of s made of characters of cs
PrefixLen(s, cs) ==
    CHOOSE n \in 0..Len(s) :
        /\ \A j \in 1..n : s[j] \in cs
        /\ n = Len(s) \/ s[n + 1] \notin cs

\* the length of the longest suffix of s made of characters of cs
SuffixLen(s, cs) ==
    CHOOSE n \in 0..Len(s) :
        /\ \A j \in (Len(s) - n + 1)..Len(s) : s[j] \in cs
        /\ n = Len(s) \/ s[Len(s) - n] \notin cs

\* s.strip(chars)
StripChars(s, cs) == SubSeq(s, PrefixLen(s, cs) + 1, Len(s) - SuffixLen(s, cs))

\* s.strip()
Strip(s) == StripChars(s, {SP, NL, TAB})

\* s.endswith(suffix)
EndsWith(s, suffix) ==
    Len(s) >= Len(suffix)
    /\ SubSeq(s, Len(s) - Len(suffix) + 1, Len(s)) = suffix

\* the places of s that hold the character c, in order
Places(s, c) == SelectSeq([j \in 1..Len(s) |-> j], LAMBDA j : s[j] = c)

\* the k-th of the pieces of s between the places nl
Piece(s, nl, k) ==
    SubSeq(s, IF k = 1 THEN 1 ELSE nl[k - 1] + 1,
              IF k > Len(nl) THEN Len(s) ELSE nl[k] - 1)

\* s.split('\n')
Split(s) ==
    LET nl == Places(s, NL)
    IN  [k \in 1..(Len(nl) + 1) |-> Piece(s, nl, k)]

\* INDENT_RE.match(line).group(0), for INDENT_RE = '^ *'
INDENT_RE(line) == SubSeq(line, 1, PrefixLen(line, {SP}))

\* a variant of WHITESPACE_INDENT_RE that matches spaces only: '^ *'
WHITESPACE_INDENT_RE_spaces(line) == SubSeq(line, 1, PrefixLen(line, {SP}))

\* WHITESPACE_INDENT_RE.match(line).group(0), for WHITESPACE_INDENT_RE = '^\s*'
WHITESPACE_INDENT_RE(line) == SubSeq(line, 1, PrefixLen(line, {SP, NL, TAB}))

----------------------------------------------------------------------------
(* The parser's side of the interface.  A shape is a construct as written,  *)
(* with its text; Parse yields the File of a document: its source text and  *)
(* the tree of located nodes the parser builds from it.                     *)

Str(s) == [k |-> "str", s |-> s]
None == [k |-> "None"]
Other == [k |-> "other"]

\* the text of a child as written
Text(sh) ==
    IF sh.k = "str" THEN sh.s
    ELSE IF sh.k = "other" THEN <<>>
    ELSE sh.text

\* the text of a sequence of children
RECURSIVE Cat(_)
Cat(kids) == IF kids = <<>> THEN <<>> ELSE Text(Head(kids)) \o Cat(Tail(kids))

TagText(name) == <<"{", "%">> \o name \o <<"%", "}">>

Leaf(kind, text) == [k |-> kind, text |-> text]
Var == Leaf("JinjaVariable", <<"{", "{", "}", "}">>)
Slash == Leaf("Slash", <<"/">>)
Content(kids) == [k |-> "Interpolated", nodes |-> kids, text |-> Cat(kids)]

\* the white space and the attributes of a tag, in the order written
Pieces(attrs) ==
    [j \in 1..(2 * Len(attrs)) |->
        IF j % 2 = 1 THEN Str(attrs[(j + 1) \div 2].ws) ELSE attrs[j \div 2].a]

OpenTag(attrs, tail) ==
    [k |-> "OpeningTag", pieces |-> Pieces(attrs),
     text |-> <<"<", "e">> \o Cat(Pieces(attrs)) \o tail \o <<">">>]

Elem(attrs, tail, content, closing) ==
    [k |-> "Element", tag |-> OpenTag(attrs, tail), content |-> Content(content),
     closing |-> closing,
     text |-> OpenTag(attrs, tail).text \o Cat(content)
              \o IF closing THEN <<"<", "/", ">">> ELSE <<>>]
Void == Elem(<<>>, <<>>, <<>>, FALSE)

Quote(kids) ==
    [k |-> "String", value |-> Content(kids),
     text |-> <<"\"">> \o Cat(kids) \o <<"\"">>]
Quoted(text) == [k |-> "Value", ws |-> <<>>, content |-> Content(<<Quote(<<Str(text)>>)>>)]
Attr(value) ==
    [k |-> "Attribute", value |-> value,
     text |-> IF value.k = "None" THEN <<"a">>
              ELSE <<"a", "=">> \o value.ws \o value.content.text]

Part(name, content) ==
    [k |-> "JinjaElementPart", name |-> name, content |-> Content(content),
     text |-> TagText(name) \o Cat(content)]
BarePart(name) ==
    [k |-> "JinjaElementPart", name |-> name, content |-> None, text |-> TagText(name)]
Jinja(parts, closing) ==
    [k |-> "JinjaElement", parts |-> parts, closing |-> closing,
     text |-> Cat(parts) \o IF closing THEN TagText(<<"/">>) ELSE <<>>]

\* the location of the character after the first i characters of src
At(src, i) ==
    LET nl == Places(SubSeq(src, 1, i), NL)
    IN  [line |-> Len(nl),
         column |-> IF nl = <<>> THEN i ELSE i - nl[Len(nl)],
         index |-> i]

RECURSIVE Locate(_, _, _), LocSeq(_, _, _)

\* Interpolated: the children of c, from place i on
LocContent(c, src, i) ==
    [k |-> "Interpolated", begin |-> At(src, i), end |-> At(src, i + Len(c.text)),
     nodes |-> LocSeq(c.nodes, src, i)]

LocJinjaTag(name, src, i) ==
    [k |-> "JinjaTag", begin |-> At(src, i), end |-> At(src, i + Len(TagText(name))),
     name |-> name]

LocTag(tag, src, i) ==
    [k |-> "OpeningTag", begin |-> At(src, i), end |-> At(src, i + Len(tag.text)),
     attributes |-> SelectSeq(LocSeq(tag.pieces, src, i + 2), LAMBDA x : x.k # "str")]

LocClosing(sh, src, i) ==
    IF sh.closing
    THEN [k |-> "ClosingTag", begin |-> At(src, i), end |-> At(src, i + 3)]
    ELSE None

LocElement(sh, src, i) ==
    [k |-> "Element", begin |-> At(src, i), end |-> At(src, i + Len(sh.text)),
     opening_tag |-> LocTag(sh.tag, src, i),
     content |-> LocContent(sh.content, src, i + Len(sh.tag.text)),
     closing_tag |-> LocClosing(sh, src, i + Len(sh.tag.text) + Len(sh.content.text))]

LocAttribute(sh, src, i) ==
    [k |-> "Attribute", begin |-> At(src, i), end |-> At(src, i + Len(sh.text)),
     value |-> IF sh.value.k = "None" THEN None
               ELSE LocContent(sh.value.content, src, i + 2 + Len(sh.value.ws))]

LocString(sh, src, i) ==
    [k |-> "String", begin |-> At(src, i), end |-> At(src, i + Len(sh.text)),
     value |-> LocContent(sh.value, src, i + 1)]

LocPart(sh, src, i) ==
    [k |-> "JinjaElementPart", begin |-> At(src, i), end |-> At(src, i + Len(sh.text)),
     tag |-> LocJinjaTag(sh.name, src, i),
     content |-> IF sh.content.k = "None" THEN None
                 ELSE LocContent(sh.content, src, i + Len(TagText(sh.name)))]

LocJinjaElement(sh, src, i) ==
    [k |-> "JinjaElement", begin |-> At(src, i), end |-> At(src, i + Len(sh.text)),
     parts |-> LocSeq(sh.parts, src, i),
     closing_tag |-> IF sh.closing THEN LocJinjaTag(<<"/">>, src, i + Len(Cat(sh.parts)))
                     ELSE None]

\* the child the parser yields for the shape sh written from place i on
Locate(sh, src, i) ==
    CASE sh.k \in {"str", "other"} -> sh
      [] sh.k = "Element" -> LocElement(sh, src, i)
      [] sh.k = "Attribute" -> LocAttribute(sh, src, i)
      [] sh.k = "String" -> LocString(sh, src, i)
      [] sh.k = "JinjaElement" -> LocJinjaElement(sh, src, i)
      [] sh.k = "JinjaElementPart" -> LocPart(sh, src, i)
      [] OTHER -> [k |-> sh.k, begin |-> At(src, i), end |-> At(src, i + Len(sh.text))]

LocSeq(kids, src, i) ==
    [j \in 1..Len(kids) |-> Locate(kids[j], src, i + Len(Cat(SubSeq(kids, 1, j - 1))))]

\* the File the checks receive for the document whose top-level children are kids
Parse(kids) ==
    [source |-> Cat(kids),
     tree |-> LocContent(Content(kids), Cat(kids), 0),
     lines |-> Split(Cat(kids))]

----------------------------------------------------------------------------
(* check.py                                                                 *)

\* source[:node.begin.index].split('\n')[-1]
get_line_beginning(source, node) ==
    LET lines == Split(SubSeq(source, 1, node.begin.index))
    IN  lines[Len(lines)]

\* None, or the number of characters before the node on its line
get_indent_level(source, node) ==
    LET beginning == get_line_beginning(source, node)
    IN  IF beginning # <<>> /\ ~IsSpace(beginning)
        THEN [none |-> TRUE, level |-> 0]
        ELSE [none |-> FALSE, level |-> Len(beginning)]

contains_exclusively(string, char) == Remove(string, char) = <<>>

\* isinstance(x, ast.Node): every class of ast.py but str and the other values
IsNode(x) == x.k \notin {"str", "other", "None"}

\* isinstance(x, ast.Jinja)
IsJinja(x) ==
    x.k \in {"JinjaVariable", "JinjaComment", "JinjaTag", "JinjaElementPart",
             "JinjaElement"}

\* bool(x): None is false, and so is an Interpolated of no nodes (__len__)
Truthy(x) ==
    /\ x.k # "None"
    /\ x.k = "Interpolated" => x.nodes # <<>>

\* Issue.from_ast(file, location, msg), the numbers of msg apart
Issue(location, text, a, b) ==
    [line |-> location.line, column |-> location.column, text |-> text, a |-> a, b |-> b]

(* The traversal's state st: the calls under way (stack), the closure's     *)
(* issues list, the exception under way ("" when there is none), and the    *)
(* two histories.                                                           *)
add_issue(st, location, text, a, b) ==
    [st EXCEPT !.issues = Append(@, Issue(location, text, a, b))]

Called(st, fn, level, node, inl) ==
    [st EXCEPT !.log =
        Append(@, [fn |-> fn, level |-> level, node |-> node, inline |-> inl])]

\* a call begins: what is left of it to do is f
Push(st, f) == [st EXCEPT !.stack = <<f>> \o @]

\* the innermost call returns
Pop(st) == [st EXCEPT !.stack = Tail(@)]

\* the innermost call goes on as f
Resume(st, f) == [st EXCEPT !.stack = <<f>> \o Tail(@)]

\* a variant of Raise that records the place and lets the traversal go on
Raise_and_go_on(st, what, node) == Called(st, "raise", 0, node, FALSE)

\* raise: the exception is under way and leaves every call; the history
\* records where
Raise(st, what, node) ==
    [Called(st, "raise", 0, node, FALSE) EXCEPT !.err = what, !.stack = <<>>]

check_indent(expected_level, node, inl, st0) ==
    LET st == Called(st0, "check_indent", expected_level, node, inl)
        node_level == get_indent_level(file.source, node)
    IN  IF node_level.none
        THEN IF ~inl /\ ~IsJinja(node)
             THEN add_issue(st, node.begin, "Should be on the next line", 0, 0)
             ELSE st
        ELSE IF node_level.level # expected_level
             THEN add_issue(st, node.begin, "Bad indentation",
                            expected_level, node_level.level)
             ELSE st

\* for c in parent: if isinstance(c, ast.Node): return c
get_first_child_node(children) ==
    IF \E j \in 1..Len(children) : IsNode(children[j])
    THEN children[CHOOSE j \in 1..Len(children) :
                    IsNode(children[j]) /\ \A m \in 1..(j - 1) : ~IsNode(children[m])]
    ELSE None

has_jinja_element_child(parent, tag_name) ==
    LET child == get_first_child_node(parent.nodes)
    IN  child.k = "JinjaElement" /\ child.parts[1].tag.name = tag_name

\* the issues of the lines after the first, in the order of the lines
check_content_str_lines(expected_level, lines, parent_node) ==
    LET bad == SelectSeq([j \in 1..Len(lines) |-> j],
                         LAMBDA j : /\ j > 1
                                    /\ Strip(lines[j]) # <<>>
                                    /\ INDENT_RE(lines[j]) # Spaces(expected_level))
    IN  [m \in 1..Len(bad) |->
            Issue(parent_node.begin, "Bad text indentation",
                  expected_level, Len(INDENT_RE(lines[bad[m]])))]

check_content_str(expected_level, string, parent_node, st0) ==
    LET st == Called(st0, "check_content_str", expected_level, parent_node, FALSE)
        lines == Split(string)
        indent == INDENT_RE(lines[1])
        st1 == IF Len(indent) > 1
               THEN add_issue(st, parent_node.begin,
                              "Expected at most one space at the beginning of the text node",
                              Len(indent), 0)
               ELSE st
    IN  [st1 EXCEPT !.issues =
            @ \o check_content_str_lines(expected_level, lines, parent_node)]

\* check_content is called: its loop is about to begin
check_content(expected_level, parent_node, inl, st) ==
    Push(Called(st, "check_content", expected_level, parent_node, inl),
         [k |-> "content", level |-> expected_level, node |-> parent_node, j |-> 1,
          inline |-> inl, inline_parent |-> inl, called |-> FALSE, before |-> inl])

\* check_node is called: its body is about to begin
call_check_node(expected_level, node, inl, st) ==
    Push(st, [k |-> "node", level |-> expected_level, node |-> node, inline |-> inl])

check_attribute(expected_level, attr, inl, st) ==
    IF ~Truthy(attr.value) THEN st
    ELSE check_content(expected_level, attr.value, TRUE,
                       IF attr.begin.line # attr.value.begin.line
                       THEN add_issue(st, attr.begin, "The value must begin on line",
                                      attr.begin.line, 0)
                       ELSE st)

\* check_opening_tag up to its call of check_node on the first attribute
check_opening_tag(expected_level, tag, inl, st) ==
    IF Len(tag.attributes) # 0 /\ tag.begin.line # tag.end.line
    THEN call_check_node(expected_level + config.indent_size, tag.attributes[1],
                         tag.attributes[1].k = "Attribute",
                         Push(st, [k |-> "attrs", level |-> expected_level, node |-> tag,
                                   j |-> 2, inline |-> inl]))
    ELSE st

\* a variant of check_opening_tag_loop whose reference column for the
\* attributes after the first is expected_level + indent_size, wherever the
\* first one is
check_opening_tag_loop_fixed(f, st) ==
    IF f.j > Len(f.node.attributes) THEN Pop(st)
    ELSE call_check_node(IF f.inline THEN f.level ELSE f.level + config.indent_size,
                         f.node.attributes[f.j],
                         f.node.attributes[f.j].k = "Attribute",
                         Resume(st, [f EXCEPT !.j = @ + 1]))

\* check_opening_tag once the first attribute is checked: attr_level, and one
\* iteration of the loop over tag.attributes[1:], or its end
check_opening_tag_loop(f, st) ==
    IF f.j > Len(f.node.attributes) THEN Pop(st)
    ELSE LET attr_level == Len(get_line_beginning(file.source, f.node.attributes[1]))
         IN  call_check_node(IF f.inline THEN f.level ELSE attr_level,
                             f.node.attributes[f.j],
                             f.node.attributes[f.j].k = "Attribute",
                             Resume(st, [f EXCEPT !.j = @ + 1]))

check_string(expected_level, string, inl, st) ==
    check_content(string.value.begin.column, string.value,
                  IF string.value.begin.line # string.value.end.line THEN FALSE ELSE inl,
                  st)

\* check_jinja_element_part up to its call of check_node on the tag
check_jinja_element_part(expected_level, part, inl, st) ==
    call_check_node(expected_level, part.tag, inl,
                    Push(st, [k |-> "part", level |-> expected_level, node |-> part,
                              inline |-> inl]))

\* a variant of check_jinja_element_part_content that keeps every chain of
\* same-name constructs flat, whatever jinja_element_names_to_not_indent lists
check_jinja_element_part_flat(f, st) ==
    LET listed == f.node.tag.name \in config.jinja_element_names_to_not_indent
    IN  IF listed /\ f.node.content.k = "None" THEN Raise(Pop(st), "TypeError", f.node)
        ELSE IF f.node.content.k = "None" THEN Pop(st)
        ELSE LET do_not_indent == has_jinja_element_child(f.node.content, f.node.tag.name)
                 shift == IF f.inline \/ do_not_indent THEN 0 ELSE config.indent_size
             IN  check_content(f.level + shift, f.node.content, f.inline, Pop(st))

\* check_jinja_element_part once the tag is checked
check_jinja_element_part_content(f, st) ==
    LET listed == f.node.tag.name \in config.jinja_element_names_to_not_indent
    \* has_jinja_element_child(None, ...) iterates over None
    IN  IF listed /\ f.node.content.k = "None" THEN Raise(Pop(st), "TypeError", f.node)
        ELSE LET do_not_indent ==
                     listed /\ has_jinja_element_child(f.node.content, f.node.tag.name)
                 shift == IF f.inline \/ do_not_indent THEN 0 ELSE config.indent_size
                 content_level == f.level + shift
             IN  IF f.node.content.k # "None"
                 THEN check_content(content_level, f.node.content, f.inline, Pop(st))
                 ELSE Pop(st)

\* check_jinja_element up to its loop
check_jinja_element(expected_level, element, inl, st) ==
    Push(st, [k |-> "parts", level |-> expected_level, node |-> element, j |-> 1,
              inline |-> IF element.begin.line = element.end.line THEN TRUE ELSE inl])

\* one iteration of the loop over element.parts, or what follows the loop
check_jinja_element_loop(f, st) ==
    IF f.j <= Len(f.node.parts)
    THEN call_check_node(f.level, f.node.parts[f.j], f.inline,
                         Resume(st, [f EXCEPT !.j = @ + 1]))
    ELSE IF f.node.closing_tag.k # "None"
    THEN check_indent(f.level, f.node.closing_tag, f.inline, Pop(st))
    ELSE Pop(st)

\* check_element up to the return of check_opening_tag
check_element(expected_level, element, inl, st) ==
    check_opening_tag(expected_level, element.opening_tag, inl,
                      Push(st, [k |-> "element", level |-> expected_level,
                                node |-> element, inline |-> inl]))

\* a variant of check_element_content that checks the content of an element
\* that is not inline at the element's own level
check_element_same_level(f, st) ==
    LET opening_tag == f.node.opening_tag
        closing_tag == f.node.closing_tag
    IN  IF Truthy(closing_tag)
        THEN IF f.inline \/ opening_tag.end.line = closing_tag.begin.line
             THEN check_content(f.level, f.node.content, TRUE, Pop(st))
             ELSE check_content(f.level, f.node.content, FALSE,
                                Resume(st, [k |-> "closing", level |-> f.level,
                                            node |-> closing_tag, inline |-> FALSE]))
        ELSE Pop(st)

\* check_element once the opening tag is checked, up to its call of
\* check_content
check_element_content(f, st) ==
    LET opening_tag == f.node.opening_tag
        closing_tag == f.node.closing_tag
    IN  IF Truthy(closing_tag)
        THEN IF f.inline \/ opening_tag.end.line = closing_tag.begin.line
             THEN check_content(f.level, f.node.content, TRUE, Pop(st))
             ELSE check_content(f.level + config.indent_size, f.node.content, FALSE,
                                Resume(st, [k |-> "closing", level |-> f.level,
                                            node |-> closing_tag, inline |-> FALSE]))
        ELSE Pop(st)

\* check_element once the content is checked: check_indent on the closing tag
check_element_closing(f, st) == check_indent(f.level, f.node, f.inline, Pop(st))

\* the classes of types_to_functions
types_to_functions ==
    {"Attribute", "Comment", "Element", "Integer", "JinjaComment", "JinjaElement",
     "JinjaElementPart", "JinjaTag", "JinjaVariable", "String"}

\* the body of check_node, up to the first call of its rule that checks
\* further nodes
check_node(expected_level, node, inl, st0) ==
    LET st == check_indent(expected_level, node, inl,
                           Called(st0, "check_node", expected_level, node, inl))
    IN  CASE node.k \notin types_to_functions -> Raise(st, "Exception", node)
          [] node.k = "Attribute" -> check_attribute(expected_level, node, inl, st)
          [] node.k = "Element" -> check_element(expected_level, node, inl, st)
          [] node.k = "JinjaElement" -> check_jinja_element(expected_level, node, inl, st)
          [] node.k = "JinjaElementPart" ->
                check_jinja_element_part(expected_level, node, inl, st)
          [] node.k = "String" -> check_string(expected_level, node, inl, st)
          \* check_comment, check_integer, check_jinja_comment, check_jinja_tag,
          \* check_jinja_variable: pass
          [] OTHER -> st

\* a variant of inline_after_str for which every text-run of white space,
\* newlines included, forces inline
inline_after_str_whitespace(child, next_child, inl) ==
    IF Strip(child) = <<>> THEN TRUE
    ELSE IF Strip(child) # <<>> /\ Count(child, NL) <= 1 THEN TRUE
    ELSE IF Truthy(next_child) /\ Strip(child) # <<>>
            /\ ~EndsWith(Remove(child, SP), <<NL>>) THEN TRUE
    ELSE IF EndsWith(Remove(child, SP), <<NL, NL>>) THEN FALSE
    ELSE inl

\* the running inline flag after the text-run child
inline_after_str(child, next_child, inl) ==
    IF StripChars(child, {SP}) = <<>> THEN TRUE
    ELSE IF Strip(child) # <<>> /\ Count(child, NL) <= 1 THEN TRUE
    ELSE IF Truthy(next_child) /\ Strip(child) # <<>>
            /\ ~EndsWith(Remove(child, SP), <<NL>>) THEN TRUE
    ELSE IF EndsWith(Remove(child, SP), <<NL, NL>>) THEN FALSE
    ELSE inl

\* the inline flag a node child is checked with, and that the loop keeps
inline_for_node(child, next_child, inl) ==
    IF Truthy(next_child) /\ child.begin.line = next_child.end.line THEN TRUE
    ELSE inl

\* next_child of iteration f.j of the loop f
next_child_of(f) ==
    get_first_child_node(SubSeq(f.node.nodes, f.j + 1, Len(f.node.nodes)))

\* iteration f.j of the loop f is over with the running inline flag `after`
Iterated(st, f, after) ==
    [st EXCEPT !.iters =
        Append(@, [level |-> f.level, child |-> f.node.nodes[f.j],
                   next_child |-> next_child_of(f),
                   inline_parent |-> f.inline_parent,
                   before |-> f.before, after |-> after])]

\* the loop goes on to its next iteration, the running inline flag being inl
Continue(st, f, inl) ==
    Resume(st, [f EXCEPT !.j = @ + 1, !.inline = inl, !.before = inl,
                         !.called = FALSE])

\* an iteration of check_content's loop on a text-run child
check_content_on_str(f, st) ==
    LET child == f.node.nodes[f.j]
        st1 == check_content_str(f.level, child.s, f.node, st)
        inl == inline_after_str(child.s, next_child_of(f), f.inline)
        st2 == IF f.inline_parent /\ ~inl
               THEN add_issue(st1, f.node.begin,
                        "An inline parent element must only contain inline children",
                        0, 0)
               ELSE st1
    IN  Continue(Iterated(st2, f, inl), f, inl)

\* an iteration of check_content's loop on a node child, up to its call of
\* check_node
check_content_on_node(f, st) ==
    LET child == f.node.nodes[f.j]
        inl == inline_for_node(child, next_child_of(f), f.inline)
    IN  call_check_node(f.level, child, inl,
                        Resume(st, [f EXCEPT !.inline = inl, !.called = TRUE]))

\* an iteration on a node child once check_node has returned
check_content_continue(f, st) == Continue(Iterated(st, f, f.inline), f, f.inline)

\* an iteration on a child that is neither a str nor a Node: raise Exception()
check_content_on_other(f, st) ==
    Raise(Continue(Iterated(st, f, f.inline), f, f.inline), "Exception", f.node.nodes[f.j])

----------------------------------------------------------------------------
(* Documents: the shapes the checks are run on, each with its configuration. *)

IfName == <<"i", "f">>
ForName == <<"f", "o">>
Newlines(n) == [j \in 1..n |-> NL]
Line(n) == Str(<<NL>> \o Spaces(n))

\* adjacent text-runs are one text-run of the tree
RECURSIVE Merge(_)
Merge(kids) ==
    IF Len(kids) < 2 THEN kids
    ELSE IF kids[1].k = "str" /\ kids[2].k = "str"
    THEN Merge(<<Str(kids[1].s \o kids[2].s)>> \o SubSeq(kids, 3, Len(kids)))
    ELSE <<kids[1]>> \o Merge(Tail(kids))

MaxItems == 3
MaxAttrs == 3
MaxSpaces == 2
MaxNewlines == 2
MaxIndent == 3

Config(n, names) == [indent_size |-> n, jinja_element_names_to_not_indent |-> names]

(* Layouts: a document as nested items, one construct per line.  T is a line *)
(* of text, B an element without closing tag, E an element and J an if/else *)
(* construct, both with the items `kids` inside.  An item is written at     *)
(* depth * indent_size + shift spaces.                                      *)
Item(t, kids, shift) == [t |-> t, kids |-> kids, shift |-> shift]

RECURSIVE Forests(_, _, _), Trees(_, _, _)

\* the sequences of n items in all; with `shifted`, exactly one element below
\* the top level is shifted by one space
Forests(n, nested, shifted) ==
    IF n = 0 THEN (IF shifted THEN {} ELSE {<<>>})
    ELSE UNION {
            {<<t>> \o f : t \in Trees(m, nested, w[1]), f \in Forests(n - m, nested, w[2])} :
            m \in 1..n,
            w \in IF shifted THEN {<<TRUE, FALSE>>, <<FALSE, TRUE>>}
                  ELSE {<<FALSE, FALSE>>}}

Trees(n, nested, shifted) ==
    IF n = 1
    THEN IF shifted
         THEN IF nested THEN {Item("B", <<>>, sh) : sh \in {-1, 1}} ELSE {}
         ELSE {Item(t, <<>>, 0) : t \in {"T", "B"}}
    ELSE {Item(t, f, 0) : t \in {"E", "J"}, f \in Forests(n - 1, TRUE, shifted)}
         \cup IF shifted /\ nested
              THEN {Item("E", f, sh) : f \in Forests(n - 1, TRUE, FALSE), sh \in {-1, 1}}
              ELSE {}

RECURSIVE Lay(_, _, _, _)

\* the children a sequence of items is parsed to, each item on a line of its own
Lay(items, depth, ind, first) ==
    IF items = <<>> THEN <<>>
    ELSE LET it == Head(items)
             inner == Merge(Lay(it.kids, depth + 1, ind, FALSE)
                            \o <<Line(depth * ind)>>)
             node == CASE it.t = "T" -> Str(<<"t">>)
                       [] it.t = "B" -> Void
                       [] it.t = "E" -> Elem(<<>>, <<>>, inner, TRUE)
                       [] it.t = "J" ->
                            Jinja(<<Part(IfName, inner),
                                    Part(<<"e">>, <<Line(depth * ind)>>)>>, TRUE)
         IN  (IF first THEN <<>> ELSE <<Line(depth * ind + it.shift)>>)
             \o <<node>> \o Lay(Tail(items), depth, ind, FALSE)

Layout(items, ind) == Merge(Lay(items, 0, ind, TRUE) \o <<Str(<<NL>>)>>)

Layouts(shifted) == UNION {Forests(n, FALSE, shifted) : n \in 1..MaxItems}

LaidOut ==
    {[doc |-> Layout(items, ind), config |-> Config(ind, {})] :
        items \in Layouts(FALSE) \cup Layouts(TRUE), ind \in {1, 4}}

(* Wrapped attributes: a tag at column 0 whose attributes each start a line  *)
(* of their own at column 4 or 5, with indent_size = 4.                     *)
Wrapped ==
    {[doc |-> <<Elem([j \in 1..n |-> [ws |-> Line(cols[j]).s, a |-> Attr(vals[j])]],
                     <<>>, <<>>, FALSE)>>,
      config |-> Config(4, {})] :
        <<n, cols, vals>> \in
            UNION {{n} \X [1..n -> {4, 5}] \X [1..n -> {None, Quoted(<<"t">>)}] :
                   n \in 1..MaxAttrs}}

(* Chains: an if/for construct at column `at` (inside an element when that  *)
(* is not 0) whose part holds, after a line of `before` (a text, a variable  *)
(* or nothing), a nested construct at column `col`; and constructs whose    *)
(* part has no content.                                                     *)
Chain(outer, inner, first, col, at) ==
    LET before == IF first.k = "None" THEN <<>> ELSE <<Line(at + 2), first>>
        nested == Jinja(<<Part(inner, <<Line(col + 2), Void, Line(col)>>)>>, TRUE)
        chain == Jinja(<<Part(outer, Merge(before \o <<Line(col), nested, Line(at)>>))>>,
                       TRUE)
    IN  IF at = 0 THEN <<chain, Line(0)>>
        ELSE <<Elem(<<>>, <<>>, <<Line(at), chain, Line(0)>>, TRUE), Line(0)>>

Chains ==
    {[doc |-> Chain(outer, inner, first, at + more, at), config |-> Config(2, names)] :
        outer \in {IfName, ForName}, inner \in {IfName, ForName},
        first \in {None, Str(<<"t">>), Var},
        more \in {0, 2}, at \in {0, 2}, names \in {{}, {IfName}}}
    \cup
    {[doc |-> <<Jinja(<<BarePart(name)>>, closing), Line(0), Void>>,
      config |-> Config(2, names)] :
        name \in {IfName, ForName}, closing \in BOOLEAN, names \in {{}, {IfName}}}

(* Mixed: two nodes around a text-run, and a node between two text-runs of  *)
(* white space inside an element, with indent_size = 2.                     *)
Gaps ==
    {Newlines(j) \o Spaces(m) \o Newlines(n) :
        j \in 0..MaxNewlines, m \in 0..MaxSpaces, n \in 0..1} \ {<<>>}

Texts ==
    {pre \o <<"t">> \o post :
        pre \in {<<>>, <<NL>>, <<NL, SP, SP>>},
        post \in {<<>>, <<NL>>, <<NL, NL>>, <<NL, SP, SP>>}}

Block(content, col) == Elem(<<>>, <<>>, content \o <<Line(col)>>, TRUE)

Nodes ==
    {Void, Var, Slash, Other,
     Elem(<<>>, <<>>, <<>>, TRUE),
     Elem(<<>>, <<>>, <<Str(<<"t">>)>>, TRUE),
     Elem(<<>>, <<>>, <<Str(<<"t">>)>>, FALSE),
     Elem(<<>>, <<>>, <<Str(<<NL, SP, SP, "t">>)>>, TRUE),
     Block(<<Line(2), Slash>>, 1)}
    \cup {Block(<<Line(2), Void>>, col) : col \in 0..MaxSpaces}

Mixed ==
    {[doc |-> <<n1, Str(w), n2>>, config |-> Config(2, {})] :
        n1 \in {Void, Slash, Elem(<<>>, <<>>, <<>>, TRUE),
                Elem(<<>>, <<>>, <<Str(<<NL, SP, SP, "t">>)>>, TRUE)},
        w \in Gaps \cup Texts, n2 \in Nodes}
    \cup
    {[doc |-> <<Elem(<<>>, <<>>, <<Str(w1), n, Str(w2)>>, TRUE)>>,
      config |-> Config(2, {})] :
        w1 \in Gaps, w2 \in Gaps,
        n \in {Void, Var, Elem(<<>>, <<>>, <<>>, TRUE), Block(<<Line(4), Void>>, 2)}}

Inputs == LaidOut \cup Wrapped \cup Chains \cup Mixed

(* The files of one or two lines, each line an indentation of spaces and    *)
(* tabs before nothing, a letter, or a letter and a tab.                    *)
ScanLines ==
    {indent \o body :
        indent \in UNION {[1..n -> {SP, TAB}] : n \in 0..MaxIndent},
        body \in {<<>>, <<"t">>, <<"t", TAB>>}}

ScanInputs ==
    {<<Str(l)>> : l \in ScanLines \ {<<>>}}
    \cup {<<Str(l1 \o <<NL>> \o l2)>> : l1 \in ScanLines, l2 \in ScanLines}

----------------------------------------------------------------------------
(* check_indentation(file, config), one step of the traversal at a time.    *)

State == [stack |-> stack, issues |-> issues, err |-> err, log |-> log, iters |-> iters]

Init ==
    /\ \E in \in Inputs : file = Parse(in.doc) /\ config = in.config
    /\ pc = "start"
    /\ stack = <<>>
    /\ idx = 1
    /\ issues = <<>>
    /\ err = ""
    /\ log = <<>>
    /\ iters = <<>>
    /\ ret = [returned |-> FALSE, value |-> <<>>]

\* the traversal is in the state st after the step
Run(st) ==
    /\ stack' = st.stack
    /\ issues' = st.issues
    /\ err' = st.err
    /\ log' = st.log
    /\ iters' = st.iters
    /\ pc' = IF st.err # "" THEN "raised" ELSE "run"
    /\ UNCHANGED <<file, config, idx, ret>>

\* the innermost call under way is at a place of kind k
At_(k) == pc = "run" /\ stack # <<>> /\ Head(stack).k = k

\* the innermost call is check_content, at the head of an iteration of its loop
HasChild ==
    /\ At_("content")
    /\ ~Head(stack).called
    /\ Head(stack).j <= Len(Head(stack).node.nodes)

\* issues = []; check_content(0, file.tree) is called
Enter ==
    /\ pc = "start"
    /\ \E st \in {check_content(0, file.tree, FALSE, State)} : Run(st)

StrChild ==
    /\ HasChild
    /\ Head(stack).node.nodes[Head(stack).j].k = "str"
    /\ \E st \in {check_content_on_str(Head(stack), State)} : Run(st)

NodeChild ==
    /\ HasChild
    /\ IsNode(Head(stack).node.nodes[Head(stack).j])
    /\ \E st \in {check_content_on_node(Head(stack), State)} : Run(st)

OtherChild ==
    /\ HasChild
    /\ Head(stack).node.nodes[Head(stack).j].k # "str"
    /\ ~IsNode(Head(stack).node.nodes[Head(stack).j])
    /\ \E st \in {check_content_on_other(Head(stack), State)} : Run(st)

\* check_node has returned to check_content's loop
NodeChecked ==
    /\ At_("content")
    /\ Head(stack).called
    /\ \E st \in {check_content_continue(Head(stack), State)} : Run(st)

\* the loop of check_content is over: check_content returns
EndContent ==
    /\ At_("content")
    /\ ~Head(stack).called
    /\ Head(stack).j > Len(Head(stack).node.nodes)
    /\ \E st \in {Pop(State)} : Run(st)

\* the body of check_node
CheckNode ==
    /\ At_("node")
    /\ \E st \in {check_node(Head(stack).level, Head(stack).node, Head(stack).inline,
                             Pop(State))} : Run(st)

\* check_opening_tag after the first attribute
NextAttribute ==
    /\ At_("attrs")
    /\ \E st \in {check_opening_tag_loop(Head(stack), State)} : Run(st)

\* check_element after check_opening_tag
ElementContent ==
    /\ At_("element")
    /\ \E st \in {check_element_content(Head(stack), State)} : Run(st)

\* check_element after check_content
ClosingTag ==
    /\ At_("closing")
    /\ \E st \in {check_element_closing(Head(stack), State)} : Run(st)

\* check_jinja_element's loop and what follows it
NextPart ==
    /\ At_("parts")
    /\ \E st \in {check_jinja_element_loop(Head(stack), State)} : Run(st)

\* check_jinja_element_part after the tag
PartContent ==
    /\ At_("part")
    /\ \E st \in {check_jinja_element_part_content(Head(stack), State)} : Run(st)

\* check_content(0, file.tree) has returned: return issues
Return ==
    /\ pc = "run"
    /\ stack = <<>>
    /\ pc' = "done"
    /\ ret' = [returned |-> TRUE, value |-> issues]
    /\ UNCHANGED <<file, config, stack, idx, issues, err, log, iters>>

Next ==
    \/ Enter \/ StrChild \/ NodeChild \/ OtherChild \/ NodeChecked \/ EndContent
    \/ CheckNode \/ NextAttribute \/ ElementContent \/ ClosingTag \/ NextPart
    \/ PartContent \/ Return

Spec == Init /\ [][Next]_vars

----------------------------------------------------------------------------
(* check_space_only_indent(file, _config), one line at a time.              *)

\* the body of the loop, for line i (from 0) of the file
check_space_only_indent_line(found, i, line) ==
    LET indent == WHITESPACE_INDENT_RE(line)
    IN  IF ~contains_exclusively(indent, SP)
        THEN Append(found, Issue([line |-> i, column |-> 0],
                                 "Should be indented with spaces", 0, 0))
        ELSE found

InitScan ==
    /\ \E doc \in ScanInputs : file = Parse(doc)
    /\ config = Config(4, {})
    /\ pc = "scan"
    /\ stack = <<>>
    /\ idx = 1
    /\ issues = <<>>
    /\ err = ""
    /\ log = <<>>
    /\ iters = <<>>
    /\ ret = [returned |-> FALSE, value |-> <<>>]

ScanLine ==
    /\ pc = "scan"
    /\ idx <= Len(file.lines)
    /\ issues' = check_space_only_indent_line(issues, idx - 1, file.lines[idx])
    /\ idx' = idx + 1
    /\ UNCHANGED <<file, config, pc, stack, err, log, iters, ret>>

ScanReturn ==
    /\ pc = "scan"
    /\ idx > Len(file.lines)
    /\ pc' = "scanned"
    /\ ret' = [returned |-> TRUE, value |-> issues]
    /\ UNCHANGED <<file, config, stack, idx, issues, err, log, iters>>

NextScan == ScanLine \/ ScanReturn

SpecScan == InitScan /\ [][NextScan]_vars

----------------------------------------------------------------------------
(* What the claims speak of.                                                *)

\* the node starts its line, after exactly col spaces
AtColumn(node, col) == get_line_beginning(file.source, node) = Spaces(col)

\* nothing follows the node on its line
EndsItsLine(node) ==
    node.end.index = Len(file.source) \/ file.source[node.end.index + 1] = NL

\* a line of text written at column col
TextLine(l, col) ==
    Len(l) > col /\ SubSeq(l, 1, col) = Spaces(col) /\ ~IsSpaceChar(l[col + 1])

\* a text-run of a canonical document: it ends the line of the construct before
\* it, holds lines of text at column col, and indents the construct after it
CanonText(lines, col, first, final) ==
    /\ lines[1] = <<>> \/ (first /\ TextLine(lines[1], 0))
    /\ \A m \in 2..(Len(lines) - 1) : TextLine(lines[m], col)
    /\ Len(lines) > 1 =>
          \/ lines[Len(lines)] = Spaces(Len(lines[Len(lines)]))
          \/ final /\ TextLine(lines[Len(lines)], 0)

RECURSIVE CanonContent(_, _, _, _), CanonNode(_, _, _, _)

\* the element that begins at index exc, nested, one space off its column
Shifted(node, depth, level, exc) ==
    /\ node.begin.index = exc
    /\ node.k = "Element"
    /\ depth >= 1
    /\ AtColumn(node, level + 1) \/ AtColumn(node, level - 1)

\* the column of the content of a part whose tag is at column level: one
\* indent_size further, but for a chain of same-name constructs kept flat
PartLevel(part, level) ==
    IF /\ part.tag.name \in config.jinja_element_names_to_not_indent
       /\ has_jinja_element_child(part.content, part.tag.name)
    THEN level
    ELSE level + config.indent_size

\* every construct of the children starts a line of its own after exactly
\* level spaces; the element that begins at index exc may be one space off
CanonContent(c, depth, level, exc) ==
    \A j \in 1..Len(c.nodes) :
        IF c.nodes[j].k = "str"
        THEN CanonText(Split(c.nodes[j].s), level,
                       depth = 0 /\ j = 1,
                       depth = 0 /\ j = Len(c.nodes))
        ELSE /\ IsNode(c.nodes[j])
             /\ EndsItsLine(c.nodes[j])
             /\ \/ AtColumn(c.nodes[j], level)
                \/ Shifted(c.nodes[j], depth, level, exc)
             /\ CanonNode(c.nodes[j], depth, level, exc)

CanonNode(n, depth, level, exc) ==
    CASE n.k = "Element" ->
            /\ n.opening_tag.attributes = <<>>
            /\ IF n.closing_tag.k = "None" THEN n.content.nodes = <<>>
               ELSE /\ EndsItsLine(n.opening_tag)
                    /\ AtColumn(n.closing_tag, level)
                    /\ CanonContent(n.content, depth + 1,
                                    level + config.indent_size, exc)
      [] n.k = "JinjaElement" ->
            /\ \A j \in 1..Len(n.parts) :
                  /\ AtColumn(n.parts[j].tag, level)
                  /\ EndsItsLine(n.parts[j].tag)
                  /\ n.parts[j].content.k # "None"
                  /\ CanonContent(n.parts[j].content, depth + 1,
                                  PartLevel(n.parts[j], level), exc)
            /\ n.closing_tag.k # "None" =>
                  /\ AtColumn(n.closing_tag, level)
                  /\ EndsItsLine(n.closing_tag)
      [] n.k \in {"JinjaVariable", "JinjaTag", "JinjaComment", "Comment"} -> TRUE
      [] OTHER -> FALSE

Canonical == CanonContent(file.tree, 0, 0, -1)

\* the line and column of the character after the first p characters
LineColumn(p) ==
    LET lines == Split(SubSeq(file.source, 1, p))
    IN  [line |-> Len(lines) - 1, column |-> Len(lines[Len(lines)])]

\* some issue of `found` is located at loc
IssueAt(found, loc) ==
    \E j \in 1..Len(found) : found[j].line = loc.line /\ found[j].column = loc.column

(* C1: on a document whose constructs each start a line of their own at     *)
(* depth * indent_size spaces, check_indentation returns no issue.          *)
C1_NoFalsePositive == (pc = "done" /\ Canonical) => ret.value = <<>>

(* C3: in a document that is canonical but for one nested element one space *)
(* off its column, check_indentation returns an issue located at that       *)
(* element's begin.                                                         *)
C3_OffByOneDetected ==
    pc = "done" =>
        \A p \in 1..Len(file.source) :
            (CanonContent(file.tree, 0, 0, p) /\ ~Canonical)
                => IssueAt(ret.value, LineColumn(p))

\* the tree holds only variants of the data model
RECURSIVE DataModel(_)
DataModel(x) ==
    CASE x.k \in {"str", "None", "Comment", "Integer", "JinjaTag", "JinjaComment",
                  "JinjaVariable", "ClosingTag"} -> TRUE
      [] x.k = "Interpolated" -> \A j \in 1..Len(x.nodes) : DataModel(x.nodes[j])
      [] x.k = "Element" ->
            /\ \A j \in 1..Len(x.opening_tag.attributes) :
                  DataModel(x.opening_tag.attributes[j])
            /\ DataModel(x.content)
      [] x.k = "Attribute" -> DataModel(x.value)
      [] x.k = "String" -> DataModel(x.value)
      [] x.k = "JinjaElement" ->
            \A j \in 1..Len(x.parts) : DataModel(x.parts[j].content)
      [] OTHER -> FALSE

(* C2: on a tree built only from the variants of the data model,            *)
(* check_indentation raises no exception, a part without content and with   *)
(* a listed tag name included.                                              *)
C2_NeverRaises == DataModel(file.tree) => err = ""

----------------------------------------------------------------------------
\* the same node of the tree
SameNode(x, y) == x.k = y.k /\ IsNode(x) /\ x.begin = y.begin /\ x.end = y.end

\* the calls of fn on the node, as places of the log
Logged(fn, node) ==
    {m \in 1..Len(log) : log[m].fn = fn /\ SameNode(log[m].node, node)}

\* the element checked alone at the top level, at column 0, its attributes
\* each on a following line of their own
WrappedTag ==
    /\ config.indent_size = 4
    /\ Len(file.tree.nodes) = 1
    /\ file.tree.nodes[1].k = "Element"
    /\ file.tree.nodes[1].begin.column = 0
    /\ file.tree.nodes[1].opening_tag.attributes # <<>>
    /\ \A j \in 1..Len(file.tree.nodes[1].opening_tag.attributes) :
          /\ file.tree.nodes[1].opening_tag.attributes[j].begin.line = j
          /\ IsSpace(get_line_beginning(file.source,
                                        file.tree.nodes[1].opening_tag.attributes[j]))

attributes == file.tree.nodes[1].opening_tag.attributes

\* the places of the attributes that are not at column 4
OffColumn == {j \in 1..Len(attributes) : attributes[j].begin.column # 4}

\* issue j is 'Bad indentation, expected a, got b' at the node
BadIndentation(found, j, node, a, b) ==
    /\ found[j].line = node.begin.line
    /\ found[j].column = node.begin.column
    /\ found[j].text = "Bad indentation"
    /\ found[j].a = a
    /\ found[j].b = b

(* C4 as stated: with every wrapped attribute at column 4 there is no issue, *)
(* and moving any one attribute, the first or a later one, to column 5      *)
(* raises exactly one issue, located at that attribute.                     *)
C4_OneIssuePerMovedAttribute ==
    (pc = "done" /\ WrappedTag) =>
        /\ OffColumn = {} => ret.value = <<>>
        /\ \A j \in 1..Len(attributes) :
              (OffColumn = {j} /\ attributes[j].begin.column = 5) =>
                  /\ Len(ret.value) = 1
                  /\ BadIndentation(ret.value, 1, attributes[j], 4, 5)

(* C4: with every wrapped attribute at column 4 there is no issue; moving   *)
(* one attribute after the first to column 5 raises exactly one issue, at   *)
(* that attribute; moving the first attribute to column 5 raises an issue   *)
(* at it ('expected 4, got 5') and one at every later attribute ('expected  *)
(* 5, got 4'), the column of the first being the reference of the others.   *)
C4_AttributeWrapping ==
    (pc = "done" /\ WrappedTag) =>
        /\ OffColumn = {} => ret.value = <<>>
        /\ \A j \in 2..Len(attributes) :
              (OffColumn = {j} /\ attributes[j].begin.column = 5) =>
                  /\ Len(ret.value) = 1
                  /\ BadIndentation(ret.value, 1, attributes[j], 4, 5)
        /\ (OffColumn = {1} /\ attributes[1].begin.column = 5) =>
              /\ Len(ret.value) = Len(attributes)
              /\ BadIndentation(ret.value, 1, attributes[1], 4, 5)
              /\ \A j \in 2..Len(attributes) :
                    BadIndentation(ret.value, j, attributes[j], 5, 4)

C4_FirstMoved ==
    /\ pc = "done"
    /\ WrappedTag
    /\ Len(attributes) = 3
    /\ OffColumn = {1}
    /\ attributes[1].begin.column = 5
    /\ Len(ret.value) = 3

----------------------------------------------------------------------------
\* call m of the log checks a part that is not inline and whose content has,
\* as first node child, a construct that begins with the part's tag name
ChainedPart(m) ==
    /\ log[m].fn = "check_node"
    /\ log[m].node.k = "JinjaElementPart"
    /\ ~log[m].inline
    /\ log[m].node.content.k # "None"
    /\ has_jinja_element_child(log[m].node.content, log[m].node.tag.name)

Listed(part) == part.tag.name \in config.jinja_element_names_to_not_indent

(* C5: the content of a non-inline part at level L, whose first node child  *)
(* is a construct of the same tag name N, is checked at L when N is listed  *)
(* in jinja_element_names_to_not_indent, and a nested chain at column L     *)
(* then has no issue; when N is not listed the content is checked at        *)
(* L + indent_size and a nested chain at column L has the issue 'Bad        *)
(* indentation, expected L + indent_size, got L' at its begin.              *)
C5_ChainedSuppression ==
    pc = "done" =>
        \A m \in 1..Len(log) :
            ChainedPart(m) =>
                LET part == log[m].node
                    L == log[m].level
                    nested == get_first_child_node(part.content.nodes)
                    E == IF Listed(part) THEN L ELSE L + config.indent_size
                IN  /\ Logged("check_content", part.content) # {}
                    /\ \A c \in Logged("check_content", part.content) :
                          log[c].level = E /\ ~log[c].inline
                    /\ AtColumn(nested, L) =>
                          IF Listed(part)
                          THEN ~IssueAt(issues, nested.begin)
                          ELSE \E j \in 1..Len(issues) :
                                  BadIndentation(issues, j, nested,
                                                 L + config.indent_size, L)

C5_ChainKeptFlat ==
    /\ pc = "done"
    /\ \E m \in 1..Len(log) :
          /\ ChainedPart(m)
          /\ Listed(log[m].node)
          /\ AtColumn(get_first_child_node(log[m].node.content.nodes), log[m].level)
          /\ log[m].level = 2
    /\ ret.value = <<>>

----------------------------------------------------------------------------
\* call m of the log is check_node on a node without a rule
Unruled(m) ==
    /\ log[m].fn = "check_node"
    /\ log[m].node.k \notin types_to_functions

\* the check has failed: an exception left it and nothing was returned
Failed ==
    /\ err = "Exception"
    /\ pc = "raised"
    /\ ~ret.returned
    /\ log[Len(log)].fn = "raise"

(* C6: once check_node is called on a node of a variant without a rule, or  *)
(* the traversal meets a child that is neither a node nor a text-run, the   *)
(* check fails: nothing but that node is looked at afterwards, no later     *)
(* iteration takes place, and no issue list is returned.                    *)
C6_FailsImmediately ==
    /\ \A m \in 1..Len(log) :
          Unruled(m) =>
              /\ Failed
              /\ \A n \in (m + 1)..Len(log) : SameNode(log[n].node, log[m].node)
    /\ \A j \in 1..Len(iters) :
          iters[j].child.k = "other" =>
              /\ Failed
              /\ j = Len(iters)
              /\ log[Len(log)].node.k = "other"
    /\ err # "" => ~ret.returned

C6_FailedWithIssues ==
    /\ \E m \in 1..Len(log) : Unruled(m) /\ log[m].level > 0
    /\ issues # <<>>
    /\ Failed

----------------------------------------------------------------------------
\* the line's leading run of white space has a character that is not a space
TabIndented(line) ==
    \E j \in 1..Len(line) :
        /\ line[j] # SP
        /\ \A m \in 1..j : IsSpaceChar(line[m])

(* C7: check_space_only_indent returns exactly one issue for every line     *)
(* whose leading run of white space holds a character other than the space, *)
(* none for the other lines, each at its line, column 0, with the message   *)
(* 'Should be indented with spaces'.                                        *)
C7_TabDetection ==
    pc = "scanned" =>
        /\ \A j \in 1..Len(ret.value) :
              /\ ret.value[j].column = 0
              /\ ret.value[j].text = "Should be indented with spaces"
              /\ ret.value[j].line \in 0..(Len(file.lines) - 1)
        /\ \A i \in 1..Len(file.lines) :
              Cardinality({j \in 1..Len(ret.value) : ret.value[j].line = i - 1})
                  = IF TabIndented(file.lines[i]) THEN 1 ELSE 0

C7_TabSpaceSpace ==
    /\ pc = "scanned"
    /\ file.lines = <<<<TAB, SP, SP>>>>
    /\ Len(ret.value) = 1

----------------------------------------------------------------------------
\* a text-run of spaces and newlines only
Blank(s) == \A j \in 1..Len(s) : s[j] \in {SP, NL}

(* C8 as stated: after a text-run child of spaces and newlines only that    *)
(* does not end in two newlines, the running inline flag is true.           *)
C8_WhitespaceForcesInline ==
    \A j \in 1..Len(iters) :
        (/\ iters[j].child.k = "str"
         /\ Blank(iters[j].child.s)
         /\ ~EndsWith(iters[j].child.s, <<NL, NL>>))
            => iters[j].after

(* C8: after a text-run child of spaces only the running inline flag is     *)
(* true; after a text-run of spaces and newlines that holds a newline it is *)
(* false when the text-run, its spaces left out, ends in two newlines, and  *)
(* otherwise what it was before the text-run.                               *)
C8_InlineAfterWhitespace ==
    \A j \in 1..Len(iters) :
        (iters[j].child.k = "str" /\ Blank(iters[j].child.s)) =>
            iters[j].after =
                IF Count(iters[j].child.s, NL) = 0 THEN TRUE
                ELSE IF EndsWith(Remove(iters[j].child.s, SP), <<NL, NL>>) THEN FALSE
                ELSE iters[j].before

C8_NewlineKeepsBlock ==
    \E j \in 1..Len(iters) :
        /\ iters[j].child.k = "str"
        /\ iters[j].child.s = <<NL, SP, SP>>
        /\ ~iters[j].inline_parent
        /\ ~iters[j].before
        /\ ~iters[j].after
        /\ j > 1 /\ IsNode(iters[j - 1].child)
        /\ IsNode(iters[j].next_child)

----------------------------------------------------------------------------
(* C9: when the next sibling node ends on the line where a node child       *)
(* begins, the child is checked with inline true, and the running inline    *)
(* flag is after the child what it was before it.                           *)
C9_ForcingIsLocal ==
    \A j \in 1..Len(iters) :
        IsNode(iters[j].child) =>
            /\ (/\ iters[j].next_child.k # "None"
                /\ iters[j].child.begin.line = iters[j].next_child.end.line)
                  => \A m \in Logged("check_node", iters[j].child) : log[m].inline
            /\ iters[j].after = iters[j].before

----------------------------------------------------------------------------
\* the closing tag starts its line, after exactly `level` white space characters
StartsLineAt(tag, level) ==
    LET beginning == get_line_beginning(file.source, tag)
    IN  /\ Len(beginning) = level
        /\ \A j \in 1..Len(beginning) : IsSpaceChar(beginning[j])

(* C10: for an element with a closing tag checked at level L: when it is    *)
(* inline, or its opening tag ends on the line where its closing tag        *)
(* begins, its content is checked at L with inline true and the closing     *)
(* tag is not checked; otherwise its content is checked at L + indent_size, *)
(* not inline, and there is an issue at the closing tag's begin unless the  *)
(* closing tag starts its line after exactly L white space characters.  The *)
(* content of an element without closing tag is not checked.                *)
C10_ElementContent ==
    pc = "done" =>
        \A m \in 1..Len(log) :
            (log[m].fn = "check_node" /\ log[m].node.k = "Element") =>
                LET e == log[m].node
                    L == log[m].level
                    content == Logged("check_content", e.content)
                IN  IF e.closing_tag.k = "None" THEN content = {}
                    ELSE IF log[m].inline
                            \/ e.opening_tag.end.line = e.closing_tag.begin.line
                    THEN /\ content # {}
                         /\ \A c \in content : log[c].level = L /\ log[c].inline
                         /\ Logged("check_indent", e.closing_tag) = {}
                         /\ ~IssueAt(issues, e.closing_tag.begin)
                    ELSE /\ content # {}
                         /\ \A c \in content :
                               log[c].level = L + config.indent_size /\ ~log[c].inline
                         /\ IssueAt(issues, e.closing_tag.begin)
                               <=> ~StartsLineAt(e.closing_tag, L)

C10_ClosingTagOff ==
    /\ pc = "done"
    /\ \E m \in 1..Len(log) :
          /\ log[m].fn = "check_node"
          /\ log[m].node.k = "Element"
          /\ log[m].level = 0
          /\ ~log[m].inline
          /\ log[m].node.closing_tag.k # "None"
          /\ log[m].node.opening_tag.end.line # log[m].node.closing_tag.begin.line
          /\ IssueAt(issues, log[m].node.closing_tag.begin)
          /\ IsSpace(get_line_beginning(file.source, log[m].node.closing_tag))

====
